---- MODULE Spec2Model ----
(***************************************************************************)
(* A model of the training orchestrator (src/train.py, class Trainer) and  *)
(* of the loss combination of ALBEF.forward (src/ALBEF/model.py).          *)
(*                                                                         *)
(* Numbers.  Python floats are modelled as exact rationals                 *)
(* [num, den] (den > 0).  Learning rates are counted in units of 1e-6,     *)
(* validation accuracies in units of 1e-9 (the initial watermark of        *)
(* Trainer.train is then the rational 1/1).  math.cos(math.pi * r) is      *)
(* modelled by Bhaskara's rational approximation, which is exact at        *)
(* r = 0, 1/2 and 1.                                                       *)
(***************************************************************************)
EXTENDS Integers, Sequences, FiniteSets, TLC

VARIABLES
    config,            \* TrainConfig: the fields the orchestrator reads
    train_len,         \* number of rows of the training dataset
    val_len,           \* len(self.val_loader): number of evaluation batches
    pc,                \* position of the control thread in Trainer.train
    iteration,         \* loop variable of Trainer.train
    error,             \* the exception that ended the run, or "none"
    train_batch_iter,  \* self.train_batch_iter: [id, pos]
    iters_created,     \* number of iter(self.train_loader) calls so far
    data_entry,        \* the batch train_loop holds: [rows, iter, index]
    fetch_log,         \* what the batch fetch of the current call did
    train_steps,       \* number of train_step invocations so far
    ops,               \* the update operations of the current iteration
    lr,                \* local lr of Trainer.train: result of get_lr
    decay_ratio,       \* local decay_ratio of get_lr when it was computed
    param_lr,          \* param_group["lr"] of every parameter group
    grads,             \* state of the gradients
    params,            \* version of the model parameters
    scaler_updates,    \* number of scaler.update() calls
    model_mode,        \* "train" or "eval"
    val_pos,           \* batches consumed from validate's batch_iter
    sum_accuracy,      \* local of validate
    total_loss,        \* local of validate
    avg_loss,          \* returned by validate
    avg_accuracy,      \* returned by validate
    best_val_accuracy, \* local of Trainer.train
    checkpoints,       \* the checkpoint files written: [iteration, eval_accuracy]
    val_history,       \* the validation accuracies of the run, in order
    pre_validate,      \* the training state when validate was entered
    inp,               \* input of ALBEF.forward
    fwd                \* result of ALBEF.forward

vars == <<config, train_len, val_len, pc, iteration, error, train_batch_iter,
          iters_created, data_entry, fetch_log, train_steps, ops, lr,
          decay_ratio, param_lr, grads, params, scaler_updates, model_mode,
          val_pos, sum_accuracy, total_loss, avg_loss, avg_accuracy,
          best_val_accuracy, checkpoints, val_history, pre_validate, inp, fwd>>

trainerVars == <<config, train_len, val_len, pc, iteration, error,
          train_batch_iter, iters_created, data_entry, fetch_log, train_steps,
          ops, lr, decay_ratio, param_lr, grads, params, scaler_updates,
          model_mode, val_pos, sum_accuracy, total_loss, avg_loss,
          avg_accuracy, best_val_accuracy, checkpoints, val_history,
          pre_validate>>

----------------------------------------------------------------------------
(* Bounds of the model. *)

MaxTrain == 4
MaxBatch == 2
MaxValBatches == 3
MaxIters == 3
MaxEvalIters == 2
MaxWarmup == 3
MaxDecay == 4
MaxLrIters == 6
MaxSeq == 2
MaxNll == 2
MaxItc == 1

(* TrainConfig.lr and TrainConfig.min_lr, in units of 1e-6. *)
BaseLr == 100
MinLr == 1

----------------------------------------------------------------------------
(* Exact rationals. *)

Rat(n, d) == [num |-> n, den |-> d]

Abs(n) == IF n < 0 THEN 0 - n ELSE n

RECURSIVE GCD(_, _)
GCD(a, b) == IF b = 0 THEN a ELSE GCD(b, a % b)

Norm(r) ==
    LET g == GCD(Abs(r.num), r.den)
    IN  Rat(r.num \div g, r.den \div g)

RatEq(a, b) == a.num * b.den = b.num * a.den
RatLT(a, b) == a.num * b.den < b.num * a.den
RatLE(a, b) == a.num * b.den <= b.num * a.den
RatGT(a, b) == RatLT(b, a)

Zero == Rat(0, 1)
NoRat == [num |-> 0, den |-> 0]

----------------------------------------------------------------------------
(* Trainer.get_lr *)

(* math.cos(math.pi * r) for a rational r in [0, 1]: Bhaskara's            *)
(* approximation cos(x) ~ (pi^2 - 4 x^2) / (pi^2 + x^2) on [0, pi/2],      *)
(* mirrored on [pi/2, pi].                                                 *)
CosPi(r) ==
    LET p == r.num
        q == r.den
        m == q - p
    IN  IF 2 * p <= q
        THEN Rat(q * q - 4 * p * p, q * q + p * p)
        ELSE Rat(0 - (q * q - 4 * m * m), q * q + m * m)

(* iteration < config.warmup_iters *)
InWarmup(c, i) == i < c.warmup_iters

(* A slip of PastDecay: the floor is taken one iteration late. *)
PastDecayLate(c, i) == i > c.lr_decay_iters + 1

(* iteration > config.lr_decay_iters *)
PastDecay(c, i) == i > c.lr_decay_iters

(* (iteration - warmup_iters) / (lr_decay_iters - warmup_iters); the       *)
(* caller has excluded a zero divisor.                                     *)
DecayRatio(c, i) ==
    LET n == i - c.warmup_iters
        d == c.lr_decay_iters - c.warmup_iters
    IN  IF d < 0 THEN Norm(Rat(0 - n, 0 - d)) ELSE Norm(Rat(n, d))

(* assert 0 <= decay_ratio <= 1 *)
RatioInRange(r) == RatLE(Zero, r) /\ RatLE(r, Rat(1, 1))

(* A slip of Coeff: the sign of the cosine term. *)
CoeffSignSlip(r) ==
    LET cs == CosPi(r)
    IN  Rat(cs.den - cs.num, 2 * cs.den)

(* coeff = 0.5 * (1.0 + math.cos(math.pi * decay_ratio)) *)
Coeff(r) ==
    LET cs == CosPi(r)
    IN  Rat(cs.den + cs.num, 2 * cs.den)

(* config.min_lr + coeff * (config.lr - config.min_lr) *)
DecayedLr(c, r) ==
    LET k == Coeff(r)
    IN  Norm(Rat(c.min_lr * k.den + k.num * (c.lr - c.min_lr), k.den))

LrResult(k, v, r) == [kind |-> k, val |-> v, ratio |-> r]

get_lr(c, i) ==
    IF InWarmup(c, i)
    THEN LrResult("value", Norm(Rat(c.lr * i, c.warmup_iters)), NoRat)
    ELSE IF PastDecay(c, i)
    THEN LrResult("value", Rat(c.min_lr, 1), NoRat)
    ELSE IF c.lr_decay_iters - c.warmup_iters = 0
    THEN LrResult("ZeroDivisionError", NoRat, NoRat)
    ELSE IF ~RatioInRange(DecayRatio(c, i))
    THEN LrResult("AssertionError", NoRat, DecayRatio(c, i))
    ELSE LrResult("value", DecayedLr(c, DecayRatio(c, i)), DecayRatio(c, i))

----------------------------------------------------------------------------
(* The training DataLoader (drop_last is left at its default, False) and   *)
(* the iterators over it.                                                  *)

(* len(self.train_loader) *)
NumBatches(n, b) == (n + b - 1) \div b

(* Rows of the k-th batch (k = 1 .. NumBatches) of one pass. *)
BatchRows(n, b, k) == IF k * b <= n THEN b ELSE n - (k - 1) * b

(* next(it) raises StopIteration *)
Exhausted(it) == it.pos >= NumBatches(train_len, config.batch_size)

(* The batch next(it) yields, and the iterator after it. *)
NextBatch(it) ==
    [rows |-> BatchRows(train_len, config.batch_size, it.pos + 1),
     iter |-> it.id, index |-> it.pos + 1]

Advance(it) == [it EXCEPT !.pos = it.pos + 1]

(* iter(self.train_loader) *)
FreshIter == [id |-> iters_created + 1, pos |-> 0]

(* A slip of IsShort: <= for <. *)
IsShortOrFull(rows) == rows <= config.batch_size

(* len(data_entry[0]) < self.config.batch_size *)
IsShort(rows) == rows < config.batch_size

NoBatch == [rows |-> 0, iter |-> 0, index |-> 0]
NoFetch == [restarts |-> 0, discarded |-> NoBatch, cause |-> "none",
            before |-> 0]

(* What one batch fetch did: the iterators it created, the batch it threw  *)
(* away, why, and the position of the iterator it started from.            *)
FetchLog(r, d, c, it) ==
    [restarts |-> r, discarded |-> d, cause |-> c, before |-> it.pos]

----------------------------------------------------------------------------
(* Trainer.train and Trainer.train_loop, statement by statement.           *)

(* A slip of UpdateOrder: the gradients are clipped before they are       *)
(* unscaled.                                                               *)
UpdateOrderClipFirst ==
    <<"train_step", "scale_backward", "clip", "unscale", "step", "update",
      "zero_grad">>

(* The statements of train_loop after the batch fetch, in program order. *)
UpdateOrder ==
    <<"train_step", "scale_backward", "unscale", "clip", "step", "update",
      "zero_grad">>

(* The statement that follows statement p of train_loop; after the last    *)
(* one train_loop returns to the logging and evaluation part of train.     *)
After(p) ==
    LET k == CHOOSE j \in 1..Len(UpdateOrder) : UpdateOrder[j] = p
    IN  IF k < Len(UpdateOrder) THEN UpdateOrder[k + 1] ELSE "eval_check"

(* Per-batch results a provider's get_validate_accuracy may return:        *)
(* accuracies in units of 1e-9, losses in arbitrary units.                 *)
AccValues == {0, 10000000, 20000000}
LossValues == {0, 1, 2}

(* best_val_accuracy = 1e-9, in units of 1e-9 *)
InitialWatermark == Rat(1, 1)

(* What validate must leave alone. *)
TrainingState ==
    [train_batch_iter |-> train_batch_iter,
     iters_created |-> iters_created,
     best_val_accuracy |-> best_val_accuracy,
     param_lr |-> param_lr,
     grads |-> grads,
     params |-> params,
     scaler_updates |-> scaler_updates]

NoSnapshot ==
    [train_batch_iter |-> [id |-> 0, pos |-> 0],
     iters_created |-> 0,
     best_val_accuracy |-> NoRat,
     param_lr |-> NoRat,
     grads |-> "none",
     params |-> 0,
     scaler_updates |-> 0]

NoInp == [targets |-> <<>>, nll |-> <<>>, itc |-> 0]
NoFwd == [done |-> FALSE,
          mlm_loss |-> [kind |-> "num", num |-> 0, den |-> 1],
          loss |-> [kind |-> "num", num |-> 0, den |-> 1]]

(* The state after Trainer.__init__ and the statements of Trainer.train    *)
(* that precede its loop, for a configuration c (max_iters >= 1).          *)
InitTrainer(c, n, l) ==
    /\ config = c
    /\ train_len = n
    /\ val_len = l
    /\ pc = "get_lr"
    /\ iteration = 0
    /\ error = "none"
    /\ train_batch_iter = [id |-> 1, pos |-> 0]
    /\ iters_created = 1
    /\ data_entry = NoBatch
    /\ fetch_log = NoFetch
    /\ train_steps = 0
    /\ ops = <<>>
    /\ lr = LrResult("none", NoRat, NoRat)
    /\ decay_ratio = NoRat
    /\ param_lr = Rat(c.lr, 1)
    /\ grads = "none"
    /\ params = 0
    /\ scaler_updates = 0
    /\ model_mode = "train"
    /\ val_pos = 0
    /\ sum_accuracy = 0
    /\ total_loss = 0
    /\ avg_loss = NoRat
    /\ avg_accuracy = NoRat
    /\ best_val_accuracy = InitialWatermark
    /\ checkpoints = {}
    /\ val_history = <<>>
    /\ pre_validate = NoSnapshot

Config(b, w, d, m, e) ==
    [batch_size |-> b, warmup_iters |-> w, lr_decay_iters |-> d,
     max_iters |-> m, eval_iters |-> e, lr |-> BaseLr, min_lr |-> MinLr]

(* lr = self.get_lr(iteration) *)
GetLr ==
    /\ pc = "get_lr"
    /\ LET r == get_lr(config, iteration)
       IN  /\ lr' = r
           /\ decay_ratio' = r.ratio
           /\ IF r.kind = "value"
              THEN pc' = "set_lr" /\ error' = error
              ELSE pc' = "failed" /\ error' = r.kind
    /\ ops' = <<>>
    /\ fetch_log' = NoFetch
    /\ UNCHANGED <<config, train_len, val_len, iteration, train_batch_iter,
                   iters_created, data_entry, train_steps, param_lr, grads,
                   params, scaler_updates, model_mode, val_pos, sum_accuracy,
                   total_loss, avg_loss, avg_accuracy, best_val_accuracy,
                   checkpoints, val_history, pre_validate, inp, fwd>>

(* for param_group in optimizer.param_groups: param_group["lr"] = lr *)
SetLr ==
    /\ pc = "set_lr"
    /\ param_lr' = lr.val
    /\ ops' = Append(ops, "set_lr")
    /\ pc' = "fetch"
    /\ UNCHANGED <<config, train_len, val_len, iteration, error,
                   train_batch_iter, iters_created, data_entry, fetch_log,
                   train_steps, lr, decay_ratio, grads, params,
                   scaler_updates, model_mode, val_pos, sum_accuracy,
                   total_loss, avg_loss, avg_accuracy, best_val_accuracy,
                   checkpoints, val_history, pre_validate, inp, fwd>>

fetchFrame == <<config, train_len, val_len, iteration, train_steps, ops, lr,
                decay_ratio, param_lr, grads, params, scaler_updates,
                model_mode, val_pos, sum_accuracy, total_loss, avg_loss,
                avg_accuracy, best_val_accuracy, checkpoints, val_history,
                pre_validate, inp, fwd>>

(* next(self.train_batch_iter) yields a full batch. *)
FetchFull ==
    /\ pc = "fetch"
    /\ ~Exhausted(train_batch_iter)
    /\ ~IsShort(NextBatch(train_batch_iter).rows)
    /\ data_entry' = NextBatch(train_batch_iter)
    /\ train_batch_iter' = Advance(train_batch_iter)
    /\ fetch_log' = FetchLog(0, NoBatch, "none", train_batch_iter)
    /\ pc' = UpdateOrder[1]
    /\ UNCHANGED <<iters_created, error>>
    /\ UNCHANGED fetchFrame

(* next(self.train_batch_iter) yields a short batch: a fresh iterator is   *)
(* created and its first batch taken.  The loader has just yielded a       *)
(* batch, so the second next() cannot raise StopIteration.                 *)
FetchShort ==
    /\ pc = "fetch"
    /\ ~Exhausted(train_batch_iter)
    /\ IsShort(NextBatch(train_batch_iter).rows)
    /\ data_entry' = NextBatch(FreshIter)
    /\ train_batch_iter' = Advance(FreshIter)
    /\ iters_created' = iters_created + 1
    /\ fetch_log' = FetchLog(1, NextBatch(train_batch_iter), "short",
                              train_batch_iter)
    /\ pc' = UpdateOrder[1]
    /\ UNCHANGED error
    /\ UNCHANGED fetchFrame

(* next(self.train_batch_iter) raises StopIteration: a fresh iterator is   *)
(* created in the handler; over an empty dataset its next() raises         *)
(* StopIteration again, out of the handler.                                *)
FetchExhausted ==
    /\ pc = "fetch"
    /\ Exhausted(train_batch_iter)
    /\ iters_created' = iters_created + 1
    /\ fetch_log' = FetchLog(1, NoBatch, "exhausted", train_batch_iter)
    /\ IF Exhausted(FreshIter)
       THEN /\ train_batch_iter' = FreshIter
            /\ data_entry' = data_entry
            /\ pc' = "failed"
            /\ error' = "StopIteration"
       ELSE /\ train_batch_iter' = Advance(FreshIter)
            /\ data_entry' = NextBatch(FreshIter)
            /\ pc' = UpdateOrder[1]
            /\ error' = error
    /\ UNCHANGED fetchFrame

stepFrame == <<config, train_len, val_len, iteration, error,
               train_batch_iter, iters_created, data_entry, fetch_log, lr,
               decay_ratio, param_lr, model_mode, val_pos, sum_accuracy,
               total_loss, avg_loss, avg_accuracy, best_val_accuracy,
               checkpoints, val_history, pre_validate, inp, fwd>>

(* train_result = self.train_provider.train_step(model, data_entry, ctx) *)
TrainStep ==
    /\ pc = "train_step"
    /\ train_steps' = train_steps + 1
    /\ ops' = Append(ops, "train_step")
    /\ pc' = After("train_step")
    /\ UNCHANGED <<grads, params, scaler_updates>>
    /\ UNCHANGED stepFrame

(* self.scaler.scale(loss).backward() *)
ScaleBackward ==
    /\ pc = "scale_backward"
    /\ grads' = "scaled"
    /\ ops' = Append(ops, "scale_backward")
    /\ pc' = After("scale_backward")
    /\ UNCHANGED <<train_steps, params, scaler_updates>>
    /\ UNCHANGED stepFrame

(* self.scaler.unscale_(optimizer) *)
Unscale ==
    /\ pc = "unscale"
    /\ grads' = IF grads = "scaled" THEN "unscaled" ELSE grads
    /\ ops' = Append(ops, "unscale")
    /\ pc' = After("unscale")
    /\ UNCHANGED <<train_steps, params, scaler_updates>>
    /\ UNCHANGED stepFrame

(* torch.nn.utils.clip_grad_norm_(model.parameters(), config.grad_clip) *)
ClipGradNorm ==
    /\ pc = "clip"
    /\ grads' = IF grads = "unscaled" THEN "clipped" ELSE "clipped_while_scaled"
    /\ ops' = Append(ops, "clip")
    /\ pc' = After("clip")
    /\ UNCHANGED <<train_steps, params, scaler_updates>>
    /\ UNCHANGED stepFrame

(* self.scaler.step(optimizer) *)
OptimizerStep ==
    /\ pc = "step"
    /\ params' = params + 1
    /\ ops' = Append(ops, "step")
    /\ pc' = After("step")
    /\ UNCHANGED <<train_steps, grads, scaler_updates>>
    /\ UNCHANGED stepFrame

(* self.scaler.update() *)
ScalerUpdate ==
    /\ pc = "update"
    /\ scaler_updates' = scaler_updates + 1
    /\ ops' = Append(ops, "update")
    /\ pc' = After("update")
    /\ UNCHANGED <<train_steps, grads, params>>
    /\ UNCHANGED stepFrame

(* optimizer.zero_grad(set_to_none=True) *)
ZeroGrad ==
    /\ pc = "zero_grad"
    /\ grads' = "none"
    /\ ops' = Append(ops, "zero_grad")
    /\ pc' = After("zero_grad")
    /\ UNCHANGED <<train_steps, params, scaler_updates>>
    /\ UNCHANGED stepFrame

----------------------------------------------------------------------------
(* The evaluation part of Trainer.train, and Trainer.validate.  The        *)
(* logging branch only prints and is left out.                             *)

(* iteration % self.config.eval_iters == 0 and iteration > 0 *)
EvalDue == iteration % config.eval_iters = 0 /\ iteration > 0

(* The next turn of "for iteration in range(self.config.max_iters)". *)
LoopAdvance ==
    IF iteration + 1 < config.max_iters
    THEN iteration' = iteration + 1 /\ pc' = "get_lr"
    ELSE iteration' = iteration /\ pc' = "done"

(* No validation is due at this iteration. *)
SkipEval ==
    /\ pc = "eval_check"
    /\ ~EvalDue
    /\ LoopAdvance
    /\ UNCHANGED <<config, train_len, val_len, error, train_batch_iter,
                   iters_created, data_entry, fetch_log, train_steps, ops,
                   lr, decay_ratio, param_lr, grads, params, scaler_updates,
                   model_mode, val_pos, sum_accuracy, total_loss, avg_loss,
                   avg_accuracy, best_val_accuracy, checkpoints, val_history,
                   pre_validate, inp, fwd>>

(* A slip of ModeOfTrain: validate returns without model.train(). *)
ModeLeftInEval == "eval"

(* The mode model.eval() and model.train() put the model in. *)
ModeOfEval == "eval"
ModeOfTrain == "train"

(* validate, up to its loop: model.eval(), the accumulators, a fresh       *)
(* iterator over the evaluation loader.                                    *)
ValidateBegin ==
    /\ pc = "eval_check"
    /\ EvalDue
    /\ pre_validate' = TrainingState
    /\ model_mode' = ModeOfEval
    /\ total_loss' = 0
    /\ sum_accuracy' = 0
    /\ val_pos' = 0
    /\ pc' = "validate_loop"
    /\ UNCHANGED <<config, train_len, val_len, iteration, error,
                   train_batch_iter, iters_created, data_entry, fetch_log,
                   train_steps, ops, lr, decay_ratio, param_lr, grads,
                   params, scaler_updates, avg_loss, avg_accuracy,
                   best_val_accuracy, checkpoints, val_history, inp, fwd>>

(* range(length - 1) has another turn *)
ValidateMore == val_pos < val_len - 1

(* One turn of validate's loop: the next evaluation batch and the          *)
(* provider's get_validate_accuracy on it, which returns an accuracy and   *)
(* a loss and, a forward pass without gradients, writes nothing.           *)
get_validate_accuracy == AccValues \X LossValues

ValidateBatch ==
    /\ pc = "validate_loop"
    /\ ValidateMore
    /\ \E res \in get_validate_accuracy :
          /\ sum_accuracy' = sum_accuracy + res[1]
          /\ total_loss' = total_loss + res[2]
    /\ val_pos' = val_pos + 1
    /\ UNCHANGED <<config, train_len, val_len, pc, iteration, error,
                   train_batch_iter, iters_created, data_entry, fetch_log,
                   train_steps, ops, lr, decay_ratio, param_lr, grads,
                   params, scaler_updates, model_mode, avg_loss,
                   avg_accuracy, best_val_accuracy, checkpoints, val_history,
                   pre_validate, inp, fwd>>

(* The divisor of the two averages: length = len(self.val_loader). *)
AverageOver == val_len

(* The end of validate: the averages, model.train(), return.  Over an      *)
(* empty evaluation loader the division raises before model.train().       *)
ValidateReturn ==
    /\ pc = "validate_loop"
    /\ ~ValidateMore
    /\ IF AverageOver = 0
       THEN /\ pc' = "failed"
            /\ error' = "ZeroDivisionError"
            /\ UNCHANGED <<avg_loss, avg_accuracy, model_mode>>
       ELSE /\ avg_loss' = Rat(total_loss, AverageOver)
            /\ avg_accuracy' = Rat(sum_accuracy, AverageOver)
            /\ model_mode' = ModeOfTrain
            /\ pc' = "save_check"
            /\ error' = error
    /\ UNCHANGED <<config, train_len, val_len, iteration, train_batch_iter,
                   iters_created, data_entry, fetch_log, train_steps, ops,
                   lr, decay_ratio, param_lr, grads, params, scaler_updates,
                   val_pos, sum_accuracy, total_loss, best_val_accuracy,
                   checkpoints, val_history, pre_validate, inp, fwd>>

saveFrame == <<config, train_len, val_len, error, train_batch_iter,
               iters_created, data_entry, fetch_log, train_steps, ops, lr,
               decay_ratio, param_lr, grads, params, scaler_updates,
               model_mode, val_pos, sum_accuracy, total_loss, avg_loss,
               avg_accuracy, pre_validate, inp, fwd>>

(* avg_accuracy > best_val_accuracy *)
BeatsWatermark == RatGT(avg_accuracy, best_val_accuracy)

(* The watermark after a save: the code never assigns best_val_accuracy. *)
WatermarkAfterSave == best_val_accuracy

(* torch.save(checkpoint, os.path.join(ckpt_dir, f"clip_{iteration}.pt")) *)
SaveCheckpoint ==
    /\ pc = "save_check"
    /\ BeatsWatermark
    /\ checkpoints' = checkpoints \cup
          {[iteration |-> iteration, eval_accuracy |-> avg_accuracy]}
    /\ best_val_accuracy' = WatermarkAfterSave
    /\ val_history' = Append(val_history, avg_accuracy)
    /\ LoopAdvance
    /\ UNCHANGED saveFrame

(* The validation did not beat the watermark: nothing is written. *)
NoSave ==
    /\ pc = "save_check"
    /\ ~BeatsWatermark
    /\ val_history' = Append(val_history, avg_accuracy)
    /\ LoopAdvance
    /\ UNCHANGED <<checkpoints, best_val_accuracy>>
    /\ UNCHANGED saveFrame

----------------------------------------------------------------------------
(* ALBEF.forward: the masked-token loss and its combination with the       *)
(* contrastive loss.  The encoders are opaque: the input is the flattened  *)
(* target sequence, the negative log-likelihood the logits give each       *)
(* position's target, and the contrastive loss.                            *)

Num(r) == [kind |-> "num", num |-> r.num, den |-> r.den]
NaN == [kind |-> "nan", num |-> 0, den |-> 0]

RECURSIVE SumOver(_, _)
SumOver(f, S) ==
    IF S = {} THEN 0
    ELSE LET i == CHOOSE j \in S : TRUE
         IN  f[i] + SumOver(f, S \ {i})

(* ignore_index=-1 *)
IgnoreIndex == 0 - 1

(* F.cross_entropy(logits, targets, ignore_index) with the default         *)
(* reduction "mean": the sum of the losses of the positions not ignored,   *)
(* divided by their number (0.0 / 0 is nan).                               *)
cross_entropy(nll, targets, ignore_index) ==
    LET kept == {i \in DOMAIN targets : targets[i] # ignore_index}
    IN  IF kept = {}
        THEN NaN
        ELSE Num(Norm(Rat(SumOver(nll, kept), Cardinality(kept))))

(* Float addition: nan is absorbing. *)
FAdd(a, b) ==
    IF a.kind = "nan" \/ b.kind = "nan"
    THEN NaN
    ELSE Num(Norm(Rat(a.num * b.den + b.num * a.den, a.den * b.den)))

(* mlm_loss = F.cross_entropy(...); return (..., itc_loss + mlm_loss) *)
Forward ==
    /\ ~fwd.done
    /\ LET mlm == cross_entropy(inp.nll, inp.targets, IgnoreIndex)
       IN  fwd' = [done |-> TRUE, mlm_loss |-> mlm,
                   loss |-> FAdd(Num(Rat(inp.itc, 1)), mlm)]
    /\ UNCHANGED inp
    /\ UNCHANGED trainerVars

----------------------------------------------------------------------------
(* Specifications. *)

SmallWarmup == 1
SmallDecay == 3

(* A training run over every dataset shape, under one valid schedule. *)
Init ==
    /\ \E b \in 1..MaxBatch, m \in 1..MaxIters, e \in 1..MaxEvalIters,
          n \in 0..MaxTrain, l \in 0..MaxValBatches :
          InitTrainer(Config(b, SmallWarmup, SmallDecay, m, e), n, l)
    /\ inp = NoInp
    /\ fwd = NoFwd

Next ==
    \/ GetLr
    \/ SetLr
    \/ FetchFull
    \/ FetchShort
    \/ FetchExhausted
    \/ TrainStep
    \/ ScaleBackward
    \/ Unscale
    \/ ClipGradNorm
    \/ OptimizerStep
    \/ ScalerUpdate
    \/ ZeroGrad
    \/ SkipEval
    \/ ValidateBegin
    \/ ValidateBatch
    \/ ValidateReturn
    \/ SaveCheckpoint
    \/ NoSave

Spec == Init /\ [][Next]_vars

(* A training run under every schedule configuration, over two dataset     *)
(* shapes (one whose last batch is short, one that divides evenly).        *)
InitLR ==
    /\ \E w \in 0..MaxWarmup, d \in 0..MaxDecay, m \in 1..MaxLrIters,
          n \in {MaxBatch, MaxBatch + 1} :
          InitTrainer(Config(MaxBatch, w, d, m, MaxEvalIters), n,
                      MaxValBatches)
    /\ inp = NoInp
    /\ fwd = NoFwd

SpecLR == InitLR /\ [][Next]_vars

(* ALBEF.forward on every input within the bounds. *)
InitLoss ==
    /\ InitTrainer(Config(MaxBatch, SmallWarmup, SmallDecay, MaxIters,
                          MaxEvalIters), MaxTrain, MaxValBatches)
    /\ \E k \in 1..MaxSeq :
          \E t \in [1..k -> {IgnoreIndex, 0, 1}], x \in [1..k -> 0..MaxNll],
             c \in 0..MaxItc :
             inp = [targets |-> t, nll |-> x, itc |-> c]
    /\ fwd = NoFwd

NextLoss == Forward

SpecLoss == InitLoss /\ [][NextLoss]_vars

----------------------------------------------------------------------------
(* Properties. *)

RatMax(a, b) == IF RatLT(a, b) THEN b ELSE a

(* The greatest of the initial watermark and the first k validation        *)
(* accuracies of the run.                                                  *)
RECURSIVE BestOf(_, _)
BestOf(h, k) == IF k = 0 THEN InitialWatermark ELSE RatMax(BestOf(h, k - 1), h[k])

(* The k-th validation of a run happens at iteration k * eval_iters. *)
SavedAt(k) == \E c \in checkpoints : c.iteration = k * config.eval_iters

(* C1: a checkpoint is saved at the k-th validation if and only if its     *)
(* accuracy a_k is strictly greater than every earlier validation          *)
(* accuracy of the run (and than the initial watermark); a tie or a lower  *)
(* accuracy never triggers a save.                                         *)
C1_SaveIffStrictlyBetter ==
    \A k \in 1..Len(val_history) :
        SavedAt(k) <=> RatGT(val_history[k], BestOf(val_history, k - 1))

(* C2: over a non-empty training dataset, every batch handed to            *)
(* train_step has exactly config.batch_size rows.                          *)
C2_TrainStepBatchIsFull ==
    (train_len >= 1 /\ pc = "train_step")
        => data_entry.rows = config.batch_size

(* C3: validate returns the mean loss and the mean accuracy over the       *)
(* L - 1 batches it processed: sum(loss_j) / (L - 1), sum(acc_j) / (L - 1). *)
C3_ValidateReturnsMeanOverProcessed ==
    (pc = "save_check" /\ val_len >= 2)
        => /\ RatEq(avg_loss, Rat(total_loss, val_len - 1))
           /\ RatEq(avg_accuracy, Rat(sum_accuracy, val_len - 1))

(* C4: with lr_decay_iters <= warmup_iters and max_iters > warmup_iters,   *)
(* the run does not get a learning rate for every one of its iterations:   *)
(* it never completes, get_lr fails at some iteration.                     *)
C4_MisconfiguredScheduleFailsLoudly ==
    (/\ config.lr_decay_iters <= config.warmup_iters
     /\ config.max_iters > config.warmup_iters)
        => pc # "done"

(* The phase boundaries of the schedule, read off the learning rate        *)
(* get_lr returned for the current iteration.                              *)
ScheduleAt(i) ==
    /\ (i < config.warmup_iters
            => RatEq(lr.val, Rat(config.lr * i, config.warmup_iters)))
    /\ (i = config.warmup_iters => lr.val = Rat(config.lr, 1))
    /\ (i >= config.lr_decay_iters => lr.val = Rat(config.min_lr, 1))

(* C5, as stated: for warmup_iters < lr_decay_iters, get_lr(0) = 0,        *)
(* get_lr(i) = lr * i / warmup_iters for i < warmup_iters,                 *)
(* get_lr(warmup_iters) = lr, get_lr(lr_decay_iters) = min_lr and          *)
(* get_lr(i) = min_lr for i > lr_decay_iters.                              *)
C5_ScheduleBoundaries_AsStated ==
    (pc = "set_lr" /\ config.warmup_iters < config.lr_decay_iters)
        => /\ (iteration = 0 => lr.val = Zero)
           /\ ScheduleAt(iteration)

(* C5, amended: the same, with get_lr(0) = 0 only when warmup_iters > 0    *)
(* (with warmup_iters = 0, iteration 0 is the decay boundary and           *)
(* get_lr(0) = lr).                                                        *)
C5_ScheduleBoundaries ==
    (pc = "set_lr" /\ config.warmup_iters < config.lr_decay_iters)
        => /\ ((iteration = 0 /\ config.warmup_iters > 0) => lr.val = Zero)
           /\ ScheduleAt(iteration)

(* C5, witness: get_lr has returned lr at the warmup boundary of a         *)
(* schedule with a warmup phase.                                           *)
C5_Witness ==
    /\ pc = "set_lr"
    /\ 0 < config.warmup_iters
    /\ config.warmup_iters < config.lr_decay_iters
    /\ iteration = config.warmup_iters
    /\ lr.val = Rat(config.lr, 1)

(* C6: if every target equals the ignore value, the MLM loss is exactly 0  *)
(* and the combined loss is the contrastive loss alone.                    *)
C6_AllIgnoredMlmLossIsZero ==
    (fwd.done /\ \A i \in DOMAIN inp.targets : inp.targets[i] = IgnoreIndex)
        => /\ fwd.mlm_loss = Num(Zero)
           /\ fwd.loss = Num(Rat(inp.itc, 1))

(* C7: from the entry of validate to its return, the training batch        *)
(* iterator, the watermark, the optimizer and scaler state and the model   *)
(* parameters are what they were at the entry, and the model is in         *)
(* training mode when validate has returned.                               *)
C7_ValidateLeavesTrainingState ==
    /\ (pc \in {"validate_loop", "save_check"} => TrainingState = pre_validate)
    /\ (pc = "save_check" => model_mode = "train")

(* C7, witness: validate has returned after processing a batch, in a run   *)
(* that has trained and moved its batch iterator.                          *)
C7_Witness ==
    /\ pc = "save_check"
    /\ val_pos >= 1
    /\ params >= 2
    /\ train_batch_iter.pos >= 1
    /\ pre_validate.params = params

(* C8: every iteration performs, once each and in this order: write the    *)
(* learning rate, train_step, scale and backward, unscale, clip, optimizer *)
(* step, scaler update, clear gradients; the optimizer steps on gradients  *)
(* clipped after unscaling, with this iteration's learning rate in the     *)
(* parameter groups.                                                       *)
C8_UpdateOrderFixed ==
    /\ (pc = "eval_check"
            => ops = <<"set_lr", "train_step", "scale_backward", "unscale",
                       "clip", "step", "update", "zero_grad">>)
    /\ (pc = "step"
            => /\ grads = "clipped"
               /\ lr = get_lr(config, iteration)
               /\ param_lr = lr.val)

(* C8, witness: the second iteration of a run has completed its update. *)
C8_Witness ==
    /\ pc = "eval_check"
    /\ iteration = 1
    /\ params = 2
    /\ Len(ops) = 8

(* C9: over a non-empty dataset a batch fetch creates a fresh iterator     *)
(* only when the fetched batch is short or the iterator is exhausted, and  *)
(* then exactly one; the batch trained on is then the first batch of the   *)
(* fresh iterator and the short batch is not trained on; train_step runs   *)
(* exactly once per call.                                                  *)
C9_RestartOncePerOccurrence ==
    (train_len >= 1 /\ pc \in {"train_step", "scale_backward"})
        => /\ fetch_log.restarts \in {0, 1}
           /\ train_batch_iter.id = iters_created
           /\ (fetch_log.restarts = 1) <=>
                 \/ /\ fetch_log.cause = "short"
                    /\ fetch_log.discarded.rows < config.batch_size
                    /\ fetch_log.discarded.rows >= 1
                    /\ fetch_log.discarded # data_entry
                 \/ /\ fetch_log.cause = "exhausted"
                    /\ fetch_log.before
                          = NumBatches(train_len, config.batch_size)
           /\ (fetch_log.restarts = 1
                 => /\ data_entry.iter = iters_created
                    /\ data_entry.index = 1
                    /\ train_batch_iter = [id |-> iters_created, pos |-> 1])
           /\ (fetch_log.restarts = 0
                 => /\ data_entry.rows = config.batch_size
                    /\ data_entry.index = fetch_log.before + 1
                    /\ data_entry.iter = train_batch_iter.id)
           /\ train_steps = iteration + (IF pc = "train_step" THEN 0 ELSE 1)

(* C9, witness: a short batch has been discarded, and the first batch of   *)
(* the one fresh iterator is being trained on.                             *)
C9_Witness ==
    /\ pc = "scale_backward"
    /\ train_len >= 1
    /\ fetch_log.cause = "short"
    /\ fetch_log.discarded.index >= 2
    /\ data_entry.index = 1
    /\ iters_created >= 2

(* C10: whenever get_lr reaches its assertion, the decay ratio is within   *)
(* [0, 1]: the assertion never fails.                                      *)
C10_DecayRatioInRange ==
    /\ lr.kind # "AssertionError"
    /\ error # "AssertionError"
    /\ (decay_ratio # NoRat
            => /\ 0 <= decay_ratio.num
               /\ decay_ratio.num <= decay_ratio.den)

(* C10, witness: get_lr has passed its assertion with a ratio strictly     *)
(* inside (0, 1).                                                          *)
C10_Witness ==
    /\ pc = "set_lr"
    /\ decay_ratio # NoRat
    /\ 0 < decay_ratio.num
    /\ decay_ratio.num < decay_ratio.den

====
